---------------------------- MODULE Spec2Model ----------------------------
(***************************************************************************)
(* Model of python/app/dialog.py (class AppDialog): the table of           *)
(* render-queue items, apply_to_render_queue_items, submit_to_deadline and *)
(* apply_and_submit, with the host application's project / render queue    *)
(* and the external Deadline command as the environment.                   *)
(*                                                                         *)
(* Every GUI handler runs to completion on the GUI thread, so a handler is *)
(* one action.  The order of the side effects inside one handler run is    *)
(* kept in the variable log (the I/O trace of the most recent handler).    *)
(*                                                                         *)
(* Text (comp names, the frame-range line edit) is a sequence of           *)
(* one-character strings.  Time is counted in ticks of 0.0001 s, so the    *)
(* 0.0001 added at dialog.py:695 is exactly one tick.                      *)
(***************************************************************************)
EXTENDS Integers, Sequences, FiniteSets, TLC

(***************************************************************************)
(* Bounds of the model.                                                    *)
(***************************************************************************)
\* the longest render queue the Add button builds
MaxItems == 2
\* the most failures of the host, the file system and the Deadline command
\* within one run of a handler
MaxFaults == 1

(***************************************************************************)
(* Settings read in __init__ (dialog.py:85-86); values of the deployment.  *)
(***************************************************************************)
first_frame == 1
last_frame == 3

(***************************************************************************)
(* Class constants, dialog.py:47-50, and the combo box order, :248.        *)
(***************************************************************************)
CUSTOM_TEXT == "Custom frame range"
COMP_TEXT == "Comp frame range"
WORK_AREA_TEXT == "Work area frame range"
SINGLE_FRAME_TEXT == "Single frame"
FrameRangeModes == {WORK_AREA_TEXT, COMP_TEXT, SINGLE_FRAME_TEXT, CUSTOM_TEXT}

\* the render-queue item statuses of the host the code tells apart, and two
\* of the others (adobe.RQItemStatus)
QUEUED == "QUEUED"
NEEDS_OUTPUT == "NEEDS_OUTPUT"
UNQUEUED == "UNQUEUED"
DONE == "DONE"
RQItemStatus == {QUEUED, NEEDS_OUTPUT, UNQUEUED, DONE}

\* the value of QMessageBox.question in apply_and_submit
QMessageBox_Yes == "Yes"
QMessageBox_No == "No"

\* Python's None, and a present value, for the entries of a frame range
None == <<>>
Some(v) == <<v>>
Val(o) == o[1]

(***************************************************************************)
(* Characters and Python string / regular expression primitives.           *)
(***************************************************************************)
Digits == <<"0", "1", "2", "3", "4", "5", "6", "7", "8", "9">>
IsDigit(c) == \E i \in 1..10 : Digits[i] = c
DigitVal(c) == (CHOOSE i \in 1..10 : Digits[i] = c) - 1
\* the class [a-zA-Z0-9_] over the characters the model uses
IsWordChar(c) == c \in {"a", "b", "B", "c", "x", "_"} \/ IsDigit(c)
NL == "\n"

\* the length of the longest prefix of s, starting at position i, whose
\* characters all satisfy (digit = want): a greedy \d+ or \D+
RECURSIVE RunLen(_, _, _)
RunLen(s, i, want) ==
    IF i > Len(s) \/ (IsDigit(s[i]) # want) THEN 0
    ELSE 1 + RunLen(s, i + 1, want)

\* int() of a string of digits
RECURSIVE ParseInt(_)
ParseInt(s) ==
    IF Len(s) = 0 THEN 0
    ELSE 10 * ParseInt(SubSeq(s, 1, Len(s) - 1)) + DigitVal(s[Len(s)])

\* "%d" % n
RECURSIVE FormatNat(_)
FormatNat(n) ==
    IF n < 10 THEN <<Digits[n + 1]>>
    ELSE FormatNat(n \div 10) \o <<Digits[(n % 10) + 1]>>
FormatInt(n) == IF n < 0 THEN <<"-">> \o FormatNat(-n) ELSE FormatNat(n)
\* "%d - %d" % (a, b)
FormatRange(a, b) == FormatInt(a) \o <<" ", "-", " ">> \o FormatInt(b)

\* re.match(r'(\d+)(\D+)(\d+)', rawText): the groups 1 and 3, or None.
\* \d and \D are complementary, so the greedy match is the only one.
MatchCustom(rawText) ==
    LET n1 == RunLen(rawText, 1, TRUE)
        n2 == RunLen(rawText, n1 + 1, FALSE)
        n3 == RunLen(rawText, n1 + n2 + 1, TRUE)
    IN  IF n1 >= 1 /\ n2 >= 1 /\ n3 >= 1
        THEN Some(<<SubSeq(rawText, 1, n1),
                    SubSeq(rawText, n1 + n2 + 1, n1 + n2 + n3)>>)
        ELSE None

\* re.match(r'(\d+)', rawText): group 1, or None
MatchSingle(rawText) ==
    LET n1 == RunLen(rawText, 1, TRUE)
    IN  IF n1 >= 1 THEN Some(SubSeq(rawText, 1, n1)) ELSE None

\* Python's round() of the quotient n / d (d > 0): to the nearest integer,
\* a tie to the even one
Round(n, d) ==
    LET q == n \div d
        r == n - q * d
    IN  IF 2 * r < d THEN q
        ELSE IF 2 * r > d THEN q + 1
        ELSE IF q % 2 = 0 THEN q ELSE q + 1


(***************************************************************************)
(* The host's compositions.  A comp is read, never written, by the dialog. *)
(* frameDuration 400 ticks is 25 fps.                                      *)
(***************************************************************************)
CompIds == 1..5
Comp(c) ==
    CASE c = 1 -> [name |-> <<"a", "1">>, frameDuration |-> 400,
                   displayStartTime |-> 0, displayStartFrame |-> 0,
                   duration |-> 2000, workAreaStart |-> 400,
                   workAreaDuration |-> 800]
      [] c = 2 -> [name |-> <<"B", "_", "2">>, frameDuration |-> 400,
                   displayStartTime |-> 4000, displayStartFrame |-> 10,
                   duration |-> 1200, workAreaStart |-> 0,
                   workAreaDuration |-> 1200]
      [] c = 3 -> [name |-> <<" ", "c">>, frameDuration |-> 400,
                   displayStartTime |-> 0, displayStartFrame |-> 0,
                   duration |-> 800, workAreaStart |-> 0,
                   workAreaDuration |-> 800]
      [] c = 4 -> [name |-> <<"x", "-">>, frameDuration |-> 400,
                   displayStartTime |-> 0, displayStartFrame |-> 0,
                   duration |-> 800, workAreaStart |-> 0,
                   workAreaDuration |-> 800]
      [] OTHER -> [name |-> <<"b", NL>>, frameDuration |-> 400,
                   displayStartTime |-> 0, displayStartFrame |-> 0,
                   duration |-> 800, workAreaStart |-> 0,
                   workAreaDuration |-> 800]

\* the render presets of the app settings (populate_presets): one preset
Presets == {"seq"}

\* what the user can type into the frame-range line edit.  With the
\* QIntValidator of the single-frame mode only a sign and digits can be
\* typed, and an intermediate text ("" or "-") can be left in the field.
CustomTexts == { <<"4", "-", "2", "x">>, <<"3">> }
SingleTexts == { <<"-">> }

(***************************************************************************)
(* State.                                                                  *)
(***************************************************************************)
VARIABLES
    project,      \* the host project: "none", "unsaved", "saved" (file name
                  \* of the form entity_name_vNNN) or "saved_badname"
    rq,           \* the host's render queue: a sequence of items
    table,        \* ui.compTableWidget: a sequence of rows
    buttons,      \* whether Apply, Add and Submit are enabled
    deadline_settings_initialized,
    jobFiles,     \* ~/temp/ae_submit_info.job and ae_plugin_info.job
    override_frame_list,
                  \* ui.deadline_use_frame_list_from_comp is checked
    op,           \* the handler that ran last, and its inputs
    log           \* the side effects of that handler run, in order

vars == <<project, rq, table, buttons, deadline_settings_initialized,
          jobFiles, override_frame_list, op, log>>

\* the position in the queue q of the item with id i, 0 when it is gone
ItemIndex(q, i) ==
    IF \E k \in DOMAIN q : q[k].id = i
    THEN CHOOSE k \in DOMAIN q : q[k].id = i
    ELSE 0

\* one event of a handler's trace
Ev(k, row, what) == [k |-> k, row |-> row, what |-> what, ok |-> TRUE]
\* an event that failed
Failed(k, row, what) == [k |-> k, row |-> row, what |-> what, ok |-> FALSE]

NoFile == [item |-> 0, comp |-> 0, complete |-> FALSE]

(***************************************************************************)
(* refresh_frame_range: the text the line edit gets when the combo box     *)
(* changes to mode.                                                        *)
(***************************************************************************)
refresh_frame_range(mode, comp) ==
    CASE mode = CUSTOM_TEXT -> FormatRange(first_frame, last_frame)
      [] mode = SINGLE_FRAME_TEXT -> FormatInt(first_frame)
      [] mode = WORK_AREA_TEXT ->
            LET startFrame == comp.workAreaStart
                endFrame == startFrame + comp.workAreaDuration
            IN  FormatRange(
                    Round(startFrame, comp.frameDuration) + comp.displayStartFrame,
                    Round(endFrame, comp.frameDuration) + comp.displayStartFrame)
      [] OTHER ->
            FormatRange(comp.displayStartFrame,
                Round(comp.duration, comp.frameDuration) + comp.displayStartFrame)

(***************************************************************************)
(* get_frame_range: <<startFrame, endFrame>>, times in ticks, or None.     *)
(***************************************************************************)
get_frame_range(comp, row) ==
    CASE row.mode = COMP_TEXT -> <<Some(0), Some(comp.duration)>>
      [] row.mode = WORK_AREA_TEXT ->
            <<Some(comp.workAreaStart),
              Some(comp.workAreaStart + comp.workAreaDuration)>>
      [] row.mode = CUSTOM_TEXT ->
            LET match == MatchCustom(row.text)
            IN  IF match # None
                THEN <<Some(comp.frameDuration * ParseInt(Val(match)[1])
                            - comp.displayStartTime),
                       Some(comp.frameDuration * ParseInt(Val(match)[2])
                            - comp.displayStartTime + 1)>>
                ELSE <<None, None>>
      [] OTHER ->
            LET match == MatchSingle(row.text)
            IN  IF match # None
                THEN LET startFrame == comp.frameDuration * ParseInt(Val(match))
                                       - comp.displayStartTime
                     IN  <<Some(startFrame), Some(startFrame)>>
                ELSE <<None, None>>

(***************************************************************************)
(* add_table_row and create_table_entries.                                 *)
(***************************************************************************)
add_table_row(item) ==
    [item |-> item.id,
     icon |-> CASE item.status = QUEUED -> "clearIcon"
                [] item.status = NEEDS_OUTPUT -> "warningIcon"
                [] OTHER -> "errorIcon",
     tip |-> CASE item.status = QUEUED -> "Template Applied | Ready to Render"
               [] item.status = NEEDS_OUTPUT -> "Template Not Applied | Needs Output"
               [] OTHER -> "Unknown | Possible Error",
     text |-> refresh_frame_range(WORK_AREA_TEXT, Comp(item.comp)),
     mode |-> WORK_AREA_TEXT,
     fmt |-> IF item.template \in Presets THEN item.template
             ELSE CHOOSE p \in Presets : TRUE,
     useCompName |-> TRUE,
     include |-> TRUE]

\* a variant of the filter that keeps QUEUED items only
StatusFilterQueued(item) == item.status = QUEUED

\* the filter of dialog.py:186
StatusFilter(item) == item.status = QUEUED \/ item.status = NEEDS_OUTPUT

\* filtered_render_queue_items, dialog.py:180-187
RECURSIVE FilteredItems(_)
FilteredItems(q) ==
    IF q = <<>> THEN <<>>
    ELSE (IF StatusFilter(Head(q)) THEN <<Head(q)>> ELSE <<>>)
         \o FilteredItems(Tail(q))

\* the rows create_table_entries leaves in the table for the queue q
create_table_entries(q) ==
    IF Len(q) = 0 THEN <<>>
    ELSE [r \in 1..Len(FilteredItems(q)) |-> add_table_row(FilteredItems(q)[r])]

\* the alerts create_table_entries shows for the queue q
create_table_alerts(q) ==
    IF Len(q) = 0 THEN <<Ev("alert", 0, "Add Comp To Render Queue")>>
    ELSE IF FilteredItems(q) = <<>>
         THEN <<Ev("alert", 0, "No Render Queue Items meet the criteria")>>
         ELSE <<>>


(***************************************************************************)
(* The host's render queue.                                                *)
(***************************************************************************)
\* an id no item of the queue and no row of the table carries
FreshId(q, t) ==
    LET used == { q[k].id : k \in DOMAIN q } \cup { t[r].item : r \in DOMAIN t }
    IN  CHOOSE n \in 1..(Cardinality(used) + 1) :
            n \notin used /\ \A m \in 1..(n - 1) : m \in used

NoOutput == [kind |-> "none", useCompName |-> FALSE, single |-> FALSE]
DefaultOutput == [kind |-> "default", useCompName |-> FALSE, single |-> FALSE]

\* the item the host's "Add to Render Queue" makes for comp c: the render
\* settings default to the work area; the item is QUEUED when the host gave
\* its output module a file, NEEDS_OUTPUT when it did not
NewItem(id, c, status) ==
    [id |-> id, comp |-> c, status |-> status, template |-> "default",
     timeSpan |-> 1,
     timeSpanStart |-> Comp(c).workAreaStart,
     timeSpanDuration |-> Comp(c).workAreaDuration,
     file |-> IF status = QUEUED THEN DefaultOutput ELSE NoOutput]

\* the queue after the host's "Add to Render Queue" for the selected comps
\* S, in project order
RECURSIVE AddToRenderQueue(_, _, _, _)
AddToRenderQueue(q, t, S, status) ==
    IF S = {} THEN q
    ELSE LET c == CHOOSE x \in S : \A y \in S : x <= y
         IN  AddToRenderQueue(Append(q, NewItem(FreshId(q, t), c, status)),
                              t, S \ {c}, status)

(***************************************************************************)
(* apply_to_render_queue_items.                                            *)
(***************************************************************************)
\* a variant of IncludeChecked that takes every row
IncludeAlways(row) == TRUE

\* includeCheckBox.checkState() == QtCore.Qt.Checked, dialog.py:445, 1343
IncludeChecked(row) == row.include

\* the test of dialog.py:454
BadFrameRange(frame_range) == frame_range[1] = None \/ frame_range[2] = None

\* a variant of SetTimeSpan that gives every custom time span, the single
\* frame's too, the duration end - start
SetTimeSpanOfRange(item, mode, frame_range, comp) ==
    CASE mode = COMP_TEXT ->
            IF item.timeSpan = 0 THEN item
            ELSE [item EXCEPT !.timeSpan = 0, !.timeSpanStart = 0,
                              !.timeSpanDuration = comp.duration]
      [] mode = WORK_AREA_TEXT ->
            IF item.timeSpan = 1 THEN item
            ELSE [item EXCEPT !.timeSpan = 1,
                              !.timeSpanStart = comp.workAreaStart,
                              !.timeSpanDuration = comp.workAreaDuration]
      [] OTHER ->
            [item EXCEPT !.timeSpan = 2,
                         !.timeSpanStart = Val(frame_range[1]),
                         !.timeSpanDuration = Val(frame_range[2]) - Val(frame_range[1])]

\* dialog.py:486-513: the time span of the item for the row's mode.  The
\* host keeps timeSpanStart / timeSpanDuration in step with the "Time Span"
\* setting (0: length of comp, 1: work area, 2: custom).
SetTimeSpan(item, mode, frame_range, comp) ==
    CASE mode = COMP_TEXT ->
            IF item.timeSpan = 0 THEN item
            ELSE [item EXCEPT !.timeSpan = 0, !.timeSpanStart = 0,
                              !.timeSpanDuration = comp.duration]
      [] mode = WORK_AREA_TEXT ->
            IF item.timeSpan = 1 THEN item
            ELSE [item EXCEPT !.timeSpan = 1,
                              !.timeSpanStart = comp.workAreaStart,
                              !.timeSpanDuration = comp.workAreaDuration]
      [] mode = CUSTOM_TEXT ->
            [item EXCEPT !.timeSpan = 2,
                         !.timeSpanStart = Val(frame_range[1]),
                         !.timeSpanDuration = Val(frame_range[2]) - Val(frame_range[1])]
      [] OTHER ->
            [item EXCEPT !.timeSpan = 2,
                         !.timeSpanStart = Val(frame_range[1]),
                         !.timeSpanDuration = comp.frameDuration * 1]

\* dialog.py:516-573: the output file set on the item's output module; the
\* host makes an item that needed an output QUEUED
SetOutputFile(item, row) ==
    [item EXCEPT !.file = [kind |-> row.fmt, useCompName |-> row.useCompName,
                           single |-> row.mode = SINGLE_FRAME_TEXT],
                 !.status = IF @ = NEEDS_OUTPUT THEN QUEUED ELSE @]

\* get_shotgrid_template raises unless the project has a file whose name
\* has the form entity_name_vNNN (dialog.py:804-809)
TemplateFieldsOk(p) == p = "saved"

\* a variant of ErrorRow that leaves the include box as it is
ErrorRowChecked(row, tip) == [row EXCEPT !.icon = "errorIcon", !.tip = tip]

\* the row with the error icon, the tooltip tip, and unchecked
ErrorRow(row, tip) ==
    [row EXCEPT !.icon = "errorIcon", !.tip = tip, !.include = FALSE]

ApplyOutcomes == {"ok", "template_not_found", "apply_template_error"}

\* one pass of the loop of dialog.py:432-582 for row r; o is what the host
\* does with the row's template.  st is the state the handler works on.
ApplyRow(st, r, o) ==
    LET row == st.table[r]
        k == ItemIndex(st.rq, row.item)
    IN
    IF st.raised \/ ~IncludeChecked(row) THEN st
    ELSE IF k = 0
    THEN [st EXCEPT !.raised = TRUE,
                    !.log = Append(@, Ev("raise", r, "invalid render queue item"))]
    ELSE
    LET item == st.rq[k]
        comp == Comp(item.comp)
        frame_range == get_frame_range(comp, row)
    IN
    IF BadFrameRange(frame_range)
    THEN [st EXCEPT !.table[r] = ErrorRow(row,
                        "Template Not Applied | Error - Bad Frame Range"),
                    !.log = Append(@, Ev("alert", r, "Bad frame range"))]
    ELSE IF o = "template_not_found"
    THEN [st EXCEPT !.table[r] = ErrorRow(row,
                        "Template Not Applied | Error - Template Not Found"),
                    !.log = Append(@, Ev("alert", r, "Error"))]
    ELSE IF o = "apply_template_error"
    THEN [st EXCEPT !.table[r] = ErrorRow(row, "Template Not Applied | Error"),
                    !.log = Append(@, Ev("alert", r, "Error"))]
    ELSE
    LET templated == [item EXCEPT !.template = row.fmt]
        spanned == SetTimeSpan(templated, row.mode, frame_range, comp)
    IN
    IF ~TemplateFieldsOk(st.project)
    THEN [st EXCEPT !.rq[k] = spanned, !.raised = TRUE,
                    !.log = Append(@, Ev("raise", r, "get_shotgrid_template"))]
    ELSE [st EXCEPT !.rq[k] = SetOutputFile(spanned, row),
                    !.table[r] = [row EXCEPT !.icon = "clearIcon",
                                   !.tip = "Template Applied | Ready to Render"],
                    !.log = Append(@, Ev("applied", r, "updated"))]

RECURSIVE ApplyRows(_, _, _)
ApplyRows(st, r, outs) ==
    IF r > Len(st.table) THEN st
    ELSE ApplyRows(ApplyRow(st, r, outs[r]), r + 1, outs)

\* the whole of apply_to_render_queue_items on the state st
apply_to_render_queue_items(st, outs) ==
    LET off == [st EXCEPT !.buttons = FALSE]
    IN
    IF Len(off.table) = 0
    THEN [off EXCEPT !.log = Append(@, Ev("alert", 0, "No render queue items"))]
    ELSE LET done == ApplyRows(off, 1, outs)
         IN  IF done.raised THEN done ELSE [done EXCEPT !.buttons = TRUE]

\* the number of failures among the outcomes outs
Faults(outs) == Cardinality({ r \in DOMAIN outs : outs[r] # "ok" })

\* the outcomes of the host for the rows of st: at most budget failures,
\* and only at rows that reach the host
ApplyOutcomesFor(st, budget) ==
    { outs \in [1..Len(st.table) -> ApplyOutcomes] :
        /\ Faults(outs) <= budget
        /\ \A r \in 1..Len(st.table) :
            outs[r] # "ok" =>
                /\ IncludeChecked(st.table[r])
                /\ ItemIndex(st.rq, st.table[r].item) # 0
                /\ ~BadFrameRange(get_frame_range(
                        Comp(st.rq[ItemIndex(st.rq, st.table[r].item)].comp),
                        st.table[r])) }

\* the state a handler starts from
Here ==
    [project |-> project, rq |-> rq, table |-> table, buttons |-> buttons,
     deadline_settings_initialized |-> deadline_settings_initialized,
     jobFiles |-> jobFiles, override_frame_list |-> override_frame_list,
     log |-> <<>>, raised |-> FALSE,
     errors |-> <<>>, n |-> 0]

\* the state a handler leaves (s: the handler's result, computed once)
Leave(st, o) ==
    \E s \in {st} :
        /\ project' = s.project
        /\ rq' = s.rq
        /\ table' = s.table
        /\ buttons' = s.buttons
        /\ deadline_settings_initialized' = s.deadline_settings_initialized
        /\ jobFiles' = s.jobFiles
        /\ override_frame_list' = s.override_frame_list
        /\ log' = s.log
        /\ op' = o

Op(name) == [name |-> name, save_project |-> "-"]

(***************************************************************************)
(* The Deadline command and submit_to_deadline.                            *)
(***************************************************************************)
\* name.startswith(" ") or name.endswith(" "), dialog.py:1353
HasOuterSpace(name) ==
    Len(name) >= 1 /\ (name[1] = " " \/ name[Len(name)] = " ")

RECURSIVE WordRunLen(_, _)
WordRunLen(s, i) ==
    IF i > Len(s) \/ ~IsWordChar(s[i]) THEN 0 ELSE 1 + WordRunLen(s, i + 1)

\* re.match(r'^[a-zA-Z0-9_]+$', name), dialog.py:1363.  In Python "$"
\* matches at the end of the string and also just before a newline that
\* ends the string.
MatchWord(name) ==
    LET n1 == WordRunLen(name, 1)
    IN  /\ n1 >= 1
        /\ \/ n1 = Len(name)
           \/ n1 = Len(name) - 1 /\ name[Len(name)] = NL

\* populate_deadline_settings: the pool and group lists are read through
\* the Deadline command; a failed call returns None and
\* parse_non_empty_lines(None) raises
LazyOutcomes == {"ok", "pools_fail", "groups_fail"}
populate_deadline_settings(st, lazy) ==
    IF st.deadline_settings_initialized THEN st
    ELSE CASE lazy = "ok" ->
                [st EXCEPT !.deadline_settings_initialized = TRUE,
                           !.log = @ \o <<Ev("cmd", 0, "-Pools"),
                                          Ev("cmd", 0, "-Groups")>>]
           [] lazy = "pools_fail" ->
                [st EXCEPT !.raised = TRUE,
                           !.log = @ \o <<Failed("cmd", 0, "-Pools"),
                                          Ev("raise", 0, "parse_non_empty_lines")>>]
           [] OTHER ->
                [st EXCEPT !.raised = TRUE,
                           !.log = @ \o <<Ev("cmd", 0, "-Pools"),
                                          Failed("cmd", 0, "-Groups"),
                                          Ev("raise", 0, "parse_non_empty_lines")>>]

\* a variant of JobFile: the file is still open, its buffer not flushed
JobFileOpen(item, complete) ==
    [item |-> item.id, comp |-> item.comp, complete |-> FALSE]

\* app.project.displayStartFrame, dialog.py:1464: the project counts its
\* frames from 0
project_displayStartFrame == 0

\* f"{start_frame}-{end_frame}", dialog.py:1470
FormatFrames(a, b) == FormatInt(a) \o <<"-">> \o FormatInt(b)

\* dialog.py:1449-1473, with multi-machine rendering and "render first and
\* last frames" unchecked: the frame list of the job, which is the text of
\* ui.deadline_frame_list (set_deadline_defaults, dialog.py:133) unless the
\* frame list is taken from a comp with a display start time
frame_list(st, item) ==
    LET comp == Comp(item.comp)
        start_frame == project_displayStartFrame
                       + Round(comp.displayStartTime, comp.frameDuration)
                       + Round(item.timeSpanStart, comp.frameDuration)
        end_frame == start_frame
                     + Round(item.timeSpanDuration, comp.frameDuration) - 1
    IN  IF st.override_frame_list /\ comp.displayStartTime # 0
        THEN FormatFrames(start_frame, end_frame)
        ELSE FormatRange(first_frame, last_frame)

\* what submit_render_queue_item_to_deadline writes for an item
JobFile(item, complete) ==
    [item |-> item.id, comp |-> item.comp, complete |-> complete]

SubmitOutcomes == {"ok", "cmd_fail", "submit_info_error", "plugin_info_error"}

\* submit_render_queue_item_to_deadline for row r.  o is what the file
\* system and the Deadline command do: "ok"; "cmd_fail" (subprocess.run
\* raises, call_deadline_command logs it and returns None);
\* "submit_info_error" / "plugin_info_error" (an exception while that file
\* is written, which leaves it closed and partial).
\* The result has raised set when the method raises.
submit_render_queue_item_to_deadline(st, r, item, o) ==
    LET si == JobFile(item, o # "submit_info_error")
        wrote_si == [st EXCEPT !.jobFiles.submit_info = si,
                        !.jobFiles.frames = IF si.complete
                                            THEN frame_list(st, item)
                                            ELSE <<>>,
                        !.log = Append(@, [k |-> "write", row |-> r,
                                           what |-> "ae_submit_info.job",
                                           ok |-> si.complete])]
        pi == JobFile(item, o # "plugin_info_error")
        wrote_pi == [wrote_si EXCEPT !.jobFiles.plugin_info = pi,
                        !.log = Append(@, [k |-> "write", row |-> r,
                                           what |-> "ae_plugin_info.job",
                                           ok |-> pi.complete])]
    IN
    IF o = "submit_info_error" THEN [wrote_si EXCEPT !.raised = TRUE]
    ELSE IF o = "plugin_info_error" THEN [wrote_pi EXCEPT !.raised = TRUE]
    ELSE [wrote_pi EXCEPT
            !.log = Append(@, [k |-> "cmd", row |-> r, what |-> "submit",
                               ok |-> (o = "ok"),
                               si |-> wrote_pi.jobFiles.submit_info,
                               pi |-> wrote_pi.jobFiles.plugin_info,
                               frames |-> wrote_pi.jobFiles.frames])]

\* the row with the icon and the tooltip
StatusRow(row, icon, tip) == [row EXCEPT !.icon = icon, !.tip = tip]

\* one pass of the loop of dialog.py:1331-1400
SubmitRow(st, r, o) ==
    LET row == st.table[r]
        k == ItemIndex(st.rq, row.item)
    IN
    IF st.raised THEN st
    ELSE IF k = 0
    THEN [st EXCEPT !.raised = TRUE,
                    !.log = Append(@, Ev("raise", r, "invalid render queue item"))]
    ELSE
    LET item == st.rq[k]
        name == Comp(item.comp).name
    IN
    IF ~IncludeChecked(row) THEN st
    ELSE IF item.status # QUEUED THEN st
    ELSE IF HasOuterSpace(name)
    THEN [st EXCEPT
            !.errors = Append(@, [row |-> r, what |-> "Comp name has spaces at the front or back, skipping"]),
            !.table[r] = StatusRow(row, "errorIcon",
                "Comp name has spaces at the front or back - Cannot submit to Deadline")]
    ELSE IF ~MatchWord(name)
    THEN [st EXCEPT
            !.errors = Append(@, [row |-> r, what |-> "Comp name has special characters, skipping"]),
            !.table[r] = StatusRow(row, "errorIcon",
                "Comp name has special characters - Cannot submit to Deadline")]
    ELSE
    LET sub == submit_render_queue_item_to_deadline(st, r, item, o)
    IN  IF sub.raised
        THEN [sub EXCEPT
                !.raised = FALSE,
                !.errors = Append(@, [row |-> r, what |-> "Failed to submit render queue item to Deadline"]),
                !.table[r] = StatusRow(row, "errorIcon", "Failed to submit to Deadline")]
        ELSE [sub EXCEPT
                !.table[r] = StatusRow(row, "submitIcon", "Submitted to Deadline"),
                !.n = @ + 1]

RECURSIVE SubmitRows(_, _, _)
SubmitRows(st, r, outs) ==
    IF r > Len(st.table) THEN st
    ELSE SubmitRows(SubmitRow(st, r, outs[r]), r + 1, outs)

\* a variant of ProjectCheck without the test of project.file
ProjectCheckNoFile(st) ==
    CASE st.project = "none" -> "No project open"
      [] Len(st.rq) = 0 -> "No render queue items"
      [] Len(st.table) = 0 -> "No render queue items available"
      [] OTHER -> ""

\* the project checks of dialog.py:1264-1285: the warning, "" when all pass
ProjectCheck(st) ==
    CASE st.project = "none" -> "No project open"
      [] st.project = "unsaved" -> "Project not saved"
      [] Len(st.rq) = 0 -> "No render queue items"
      [] Len(st.table) = 0 -> "No render queue items available"
      [] OTHER -> ""

\* a variant of SaveAndBackup that saves whatever the answer was
SaveAlwaysAndBackup(st, save_project, backup_ok) ==
    [st EXCEPT !.log = @ \o <<Ev("save", 0, "project.save"),
                               [k |-> "backup", row |-> 0,
                                what |-> "shutil.copy", ok |-> backup_ok]>>]

\* dialog.py:1289-1315: the save, when asked for, and the backup copy
SaveAndBackup(st, save_project, backup_ok) ==
    LET saved == IF save_project = QMessageBox_Yes
                 THEN [st EXCEPT !.log = Append(@, Ev("save", 0, "project.save"))]
                 ELSE st
    IN  [saved EXCEPT !.log = Append(@, [k |-> "backup", row |-> 0,
                                         what |-> "shutil.copy",
                                         ok |-> backup_ok])]

\* a variant of Finish that counts every row of the table
FinishAllRows(st) ==
    [st EXCEPT
        !.buttons = TRUE,
        !.log = Append(@, [k |-> "message", row |-> 0,
                           what |-> IF st.errors # <<>>
                                    THEN "Submission completed with errors"
                                    ELSE "Submission completed successfully",
                           ok |-> TRUE, lines |-> st.errors,
                           n |-> Len(st.table)])]

\* dialog.py:1402-1414: the buttons, and the one message box
Finish(st) ==
    [st EXCEPT
        !.buttons = TRUE,
        !.log = Append(@, [k |-> "message", row |-> 0,
                           what |-> IF st.errors # <<>>
                                    THEN "Submission completed with errors"
                                    ELSE "Submission completed successfully",
                           ok |-> TRUE, lines |-> st.errors, n |-> st.n])]

\* the whole of submit_to_deadline on the state st
submit_to_deadline(st, save_project, lazy, backup_ok, outs) ==
    LET off == [st EXCEPT !.buttons = FALSE, !.errors = <<>>, !.n = 0]
        loaded == populate_deadline_settings(off, lazy)
    IN
    IF loaded.raised THEN loaded
    ELSE IF ProjectCheck(loaded) # ""
    THEN [loaded EXCEPT !.log = Append(@, Ev("warning", 0, ProjectCheck(loaded)))]
    ELSE LET done == SubmitRows(SaveAndBackup(loaded, save_project, backup_ok),
                                1, outs)
         IN  IF done.raised THEN done ELSE Finish(done)

\* whether the loop hands row r to submit_render_queue_item_to_deadline
Submittable(st, r) ==
    LET row == st.table[r]
        k == ItemIndex(st.rq, row.item)
    IN  /\ k # 0
        /\ IncludeChecked(row)
        /\ st.rq[k].status = QUEUED
        /\ ~HasOuterSpace(Comp(st.rq[k].comp).name)
        /\ MatchWord(Comp(st.rq[k].comp).name)

\* the inputs of a submit_to_deadline run from st that the run reads
LazyOutcomesFor(st) ==
    IF st.deadline_settings_initialized THEN {"ok"} ELSE LazyOutcomes
BackupOutcomesFor(st) ==
    IF ProjectCheck(st) # "" THEN {TRUE} ELSE BOOLEAN
SubmitOutcomesFor(st, budget) ==
    { outs \in [1..Len(st.table) -> SubmitOutcomes] :
        /\ Faults(outs) <= budget
        /\ \A r \in 1..Len(st.table) :
            outs[r] # "ok" => ProjectCheck(st) = "" /\ Submittable(st, r) }

\* apply_and_submit, after the user answered save_project and
\* apply_to_render_queue_items left the state applied: an exception of the
\* first call ends the handler
apply_and_submit(applied, save_project, lazy, backup_ok, souts) ==
    IF applied.raised THEN applied
    ELSE submit_to_deadline(applied, save_project, lazy, backup_ok, souts)

(***************************************************************************)
(* Initial state: the dialog as __init__ leaves it, which ends with        *)
(* create_render_queue_items on the comps selected in the project.         *)
(***************************************************************************)
Selections(comps, room) == { S \in SUBSET comps : Cardinality(S) <= room }

InitOf(comps, projects) ==
    /\ project \in projects
    /\ \E S \in Selections(comps, MaxItems), status \in {QUEUED, NEEDS_OUTPUT} :
          rq = AddToRenderQueue(<<>>, <<>>, S, status)
    /\ table = create_table_entries(rq)
    /\ buttons = TRUE
    /\ deadline_settings_initialized = FALSE
    /\ jobFiles = [submit_info |-> NoFile, plugin_info |-> NoFile,
                   frames |-> <<>>]
    /\ override_frame_list = FALSE
    /\ op = Op("__init__")
    /\ log = create_table_alerts(rq)

(***************************************************************************)
(* The handlers.                                                           *)
(***************************************************************************)
\* create_table_entries on st: with no project the table is cleared and the
\* read of project.renderQueue raises
RefreshTable(st) ==
    IF st.project = "none"
    THEN [st EXCEPT !.table = <<>>, !.raised = TRUE,
                    !.log = Append(@, Ev("raise", 0, "project.renderQueue"))]
    ELSE [st EXCEPT !.table = create_table_entries(st.rq),
                    !.log = @ \o create_table_alerts(st.rq)]

\* the Add button: create_render_queue_items, the comps S being selected
create_render_queue_items(st, S, status) ==
    LET off == [st EXCEPT !.buttons = FALSE]
        added == IF off.project = "none" THEN off
                 ELSE [off EXCEPT !.rq = AddToRenderQueue(off.rq, off.table, S, status)]
        shown == RefreshTable(added)
    IN  IF shown.raised THEN shown ELSE [shown EXCEPT !.buttons = TRUE]

AddOf(comps) ==
    /\ buttons
    /\ \E S \in Selections(comps, MaxItems - Len(rq)), status \in {QUEUED, NEEDS_OUTPUT} :
          /\ S = {} => status = QUEUED
          /\ Leave(create_render_queue_items(Here, S, status),
                   Op("create_render_queue_items"))

\* the Refresh context-menu action: create_table_entries
Refresh ==
    Leave(RefreshTable(Here), Op("create_table_entries"))

\* the Apply button
Apply ==
    /\ buttons
    /\ \E outs \in ApplyOutcomesFor(Here, MaxFaults) :
          Leave(apply_to_render_queue_items(Here, outs),
                Op("apply_to_render_queue_items"))

\* the Submit button: apply_and_submit
ApplyAndSubmit ==
    /\ buttons
    /\ \E save_project \in {QMessageBox_Yes, QMessageBox_No},
          aouts \in ApplyOutcomesFor(Here, MaxFaults) :
          \E applied \in {apply_to_render_queue_items(Here, aouts)} :
          \E left \in {IF applied.raised THEN 0 ELSE MaxFaults - Faults(aouts)} :
          \E lazy \in LazyOutcomesFor(applied),
             backup_ok \in BackupOutcomesFor(applied) :
             /\ (IF lazy = "ok" THEN 0 ELSE 1)
                  + (IF backup_ok THEN 0 ELSE 1) <= left
             /\ \E souts \in SubmitOutcomesFor(applied,
                        left - (IF lazy = "ok" THEN 0 ELSE 1)
                             - (IF backup_ok THEN 0 ELSE 1)) :
                   Leave(apply_and_submit(applied, save_project, lazy,
                                          backup_ok, souts),
                         [name |-> "apply_and_submit",
                          save_project |-> save_project])

\* the toggle of the Deadline panel: populate_deadline_settings
PopulateDeadlineSettings ==
    /\ ~deadline_settings_initialized
    /\ \E lazy \in LazyOutcomes :
          /\ lazy # "ok" => MaxFaults >= 1
          /\ Leave(populate_deadline_settings(Here, lazy),
                   Op("populate_deadline_settings"))

\* the user checks or unchecks the include box of row r
ToggleInclude ==
    \E r \in DOMAIN table :
        Leave([Here EXCEPT !.table[r].include = ~@], Op("edit"))

\* the user checks or unchecks the use-comp-name box of row r
ToggleUseCompName ==
    \E r \in DOMAIN table :
        Leave([Here EXCEPT !.table[r].useCompName = ~@], Op("edit"))

\* the user checks or unchecks "use frame list from comp" in the Deadline
\* panel
ToggleOverrideFrameList ==
    Leave([Here EXCEPT !.override_frame_list = ~@], Op("edit"))

\* the user picks another frame-range mode for row r: the combo box's
\* currentIndexChanged runs refresh_frame_range, which reads the comp of the
\* row's item only for the work-area and comp modes, after clearing the text
SetFrameRangeMode ==
    \E r \in DOMAIN table, mode \in FrameRangeModes :
        /\ mode # table[r].mode
        /\ LET k == ItemIndex(rq, table[r].item)
               text == IF k = 0
                       THEN IF mode \in {CUSTOM_TEXT, SINGLE_FRAME_TEXT}
                            THEN refresh_frame_range(mode, Comp(1))
                            ELSE <<>>
                       ELSE refresh_frame_range(mode, Comp(rq[k].comp))
           IN  Leave([Here EXCEPT !.table[r].mode = mode, !.table[r].text = text],
                     Op("edit"))

\* the user types one of the texts custom, or single in the single-frame
\* mode, into the enabled frame-range line edit of row r
EditFrameRangeOf(custom, single) ==
    \E r \in DOMAIN table :
        \E text \in (IF table[r].mode = CUSTOM_TEXT THEN custom
                     ELSE IF table[r].mode = SINGLE_FRAME_TEXT THEN single
                     ELSE {}) :
            /\ text # table[r].text
            /\ Leave([Here EXCEPT !.table[r].text = text], Op("edit"))

EditFrameRange == EditFrameRangeOf(CustomTexts, SingleTexts)

\* remove_comp with the cursor over row (0-based): the item of the row
\* above is removed from the queue, and that row from the table
RemoveAt(s, i) == SubSeq(s, 1, i - 1) \o SubSeq(s, i + 1, Len(s))
remove_comp(st, row) ==
    IF row = -1 \/ row = 0 THEN st
    ELSE LET k == ItemIndex(st.rq, st.table[row].item)
         IN  IF k = 0
             THEN [st EXCEPT !.raised = TRUE,
                             !.log = Append(@, Ev("raise", row, "invalid render queue item"))]
             ELSE [st EXCEPT !.rq = RemoveAt(@, k), !.table = RemoveAt(@, row)]

RemoveComp ==
    \E row \in 0..(Len(table) - 1) :
        Leave(remove_comp(Here, row), Op("remove_comp"))

(***************************************************************************)
(* The environment: the user working in the host application.              *)
(***************************************************************************)
\* an item is unqueued, or queued again
EnvSetStatus ==
    \E k \in DOMAIN rq, status \in RQItemStatus :
        /\ \/ rq[k].status = QUEUED /\ status = UNQUEUED
           \/ rq[k].status = UNQUEUED /\ status = QUEUED
        /\ Leave([Here EXCEPT !.rq[k].status = status], Op("host"))

\* the project is saved (under a name of the expected form or another),
\* closed, or a project with an empty render queue is opened
EnvProject ==
    \E p \in {"none", "unsaved", "saved", "saved_badname"} :
        /\ p # project
        /\ \/ project \in {"unsaved", "saved", "saved_badname"}
              /\ p \in {"saved", "saved_badname"}
              /\ Leave([Here EXCEPT !.project = p], Op("host"))
           \/ project # "none" /\ p = "none"
              /\ Leave([Here EXCEPT !.project = p, !.rq = <<>>], Op("host"))
           \/ project = "none"
              /\ Leave([Here EXCEPT !.project = p, !.rq = <<>>], Op("host"))

Init == InitOf(CompIds, {"unsaved", "saved", "saved_badname"})
Add == AddOf(CompIds)

Next ==
    \/ Add
    \/ Refresh
    \/ Apply
    \/ ApplyAndSubmit
    \/ PopulateDeadlineSettings
    \/ ToggleInclude
    \/ ToggleUseCompName
    \/ ToggleOverrideFrameList
    \/ SetFrameRangeMode
    \/ EditFrameRange
    \/ RemoveComp
    \/ EnvSetStatus
    \/ EnvProject

Spec == Init /\ [][Next]_vars

(***************************************************************************)
(* Restrictions of Spec to the handlers and the comps a group of           *)
(* properties is about.  Every behaviour of one of them is a behaviour of  *)
(* Spec.                                                                   *)
(***************************************************************************)
\* the table: Add, Refresh and what changes rows and items between them
TableComps == {1, 2}
InitTable == InitOf(TableComps, {"unsaved", "saved"})
AddTable == AddOf(TableComps)
NextTable ==
    \/ AddTable
    \/ Refresh
    \/ ToggleInclude
    \/ SetFrameRangeMode
    \/ RemoveComp
    \/ EnvSetStatus
    \/ EnvProject
SpecTable == InitTable /\ [][NextTable]_vars

\* Apply on the rows the dialog opened with
ApplyComps == {1, 2}
InitApply == InitOf(ApplyComps, {"unsaved", "saved"})
NextApply ==
    \/ Apply
    \/ Refresh
    \/ ToggleInclude
    \/ SetFrameRangeMode
    \/ EditFrameRange
SpecApply == InitApply /\ [][NextApply]_vars

\* Submit, in a saved project, on rows in their default frame-range mode
InitSubmit == InitOf(CompIds, {"saved"})
NextSubmit ==
    \/ ApplyAndSubmit
    \/ ToggleInclude
    \/ EnvSetStatus
SpecSubmit == InitSubmit /\ [][NextSubmit]_vars

\* Submit while the project is saved, closed and opened
ProjectComps == {1, 2}
InitProject == InitOf(ProjectComps, {"unsaved", "saved", "saved_badname"})
NextProject ==
    \/ ApplyAndSubmit
    \/ PopulateDeadlineSettings
    \/ Refresh
    \/ ToggleInclude
    \/ EnvSetStatus
    \/ EnvProject
SpecProject == InitProject /\ [][NextProject]_vars

\* Submit with the frame list taken from the comp, on rows with a custom
\* frame range
FrameTexts == { <<"1", "1", " ", "-", " ", "1", "3">>,
                <<"1", "2", "-", "1", "2">> }
FrameComps == {2}
InitFrames == InitOf(FrameComps, {"saved"})
EditFrames == EditFrameRangeOf(FrameTexts, {})
NextFrames ==
    \/ ApplyAndSubmit
    \/ ToggleOverrideFrameList
    \/ SetFrameRangeMode
    \/ EditFrames
SpecFrames == InitFrames /\ [][NextFrames]_vars

\* the three buttons: Add, Apply and Submit
ButtonComps == {1}
InitButtons == InitOf(ButtonComps, {"unsaved", "saved"})
AddButtons == AddOf(ButtonComps)
NextButtons ==
    \/ AddButtons
    \/ Apply
    \/ ApplyAndSubmit
    \/ ToggleInclude
SpecButtons == InitButtons /\ [][NextButtons]_vars

(***************************************************************************)
(* Properties.  op names the handler that ran last and log is the trace of *)
(* that run, so a state predicate on them speaks of the state the handler  *)
(* left, and a predicate on the step of what the handler changed.          *)
(***************************************************************************)
\* the positions in the trace l of the events of kind k
EventsOf(l, k) == { i \in DOMAIN l : l[i].k = k }

\* the positions of the Deadline command invocations that submit a job
SubmitCmds(l) == { i \in DOMAIN l : l[i].k = "cmd" /\ l[i].what = "submit" }

\* no exception left the handler
NoRaise(l) == EventsOf(l, "raise") = {}

\* the loop of the handler came to row r
Reached(l, r) == \A i \in EventsOf(l, "raise") : l[i].row >= r

\* the item of row r of the table t in the queue q
ItemOf(q, t, r) == q[ItemIndex(q, t[r].item)]

\* C1: after create_table_entries (Refresh, or the last step of
\* create_render_queue_items on construction and on Add) the table has one
\* row for each item that is QUEUED or NEEDS_OUTPUT, in queue order, no row
\* for another item, and every row is a new one: nothing of the rows that
\* were there before is left.
C1_TableShowsQueue ==
    op.name \in {"__init__", "create_table_entries", "create_render_queue_items"} =>
        /\ \A r \in DOMAIN table :
              /\ ItemIndex(rq, table[r].item) # 0
              /\ ItemOf(rq, table, r).status \in {QUEUED, NEEDS_OUTPUT}
              /\ table[r] = add_table_row(ItemOf(rq, table, r))
        /\ \A k \in DOMAIN rq :
              rq[k].status \in {QUEUED, NEEDS_OUTPUT} =>
                  Cardinality({ r \in DOMAIN table : table[r].item = rq[k].id }) = 1
        /\ \A r, s \in DOMAIN table :
              r < s => ItemIndex(rq, table[r].item) < ItemIndex(rq, table[s].item)

\* Refresh left one row, for the second item: the first one is unqueued
C1_Witness ==
    /\ op.name = "create_table_entries"
    /\ Len(rq) = 2 /\ Len(table) = 1
    /\ rq[1].status = UNQUEUED
    /\ table[1].item = rq[2].id

\* row r was applied in the run with the trace l
Applied(l, r) == \E i \in EventsOf(l, "applied") : l[i].row = r

\* C2: apply_to_render_queue_items gives the item of every row it applied
\* the time span of the row's mode: "Time Span" 0 for the comp, 1 for the
\* work area; for a custom range the start time and end - start; for a
\* single frame the start time and one frameDuration.
C2_TimeSpanByMode ==
    op.name = "apply_to_render_queue_items" =>
        \A r \in DOMAIN table :
            Applied(log, r) =>
                LET item == ItemOf(rq, table, r)
                    comp == Comp(item.comp)
                    range == get_frame_range(comp, table[r])
                    mode == table[r].mode
                IN  /\ mode = COMP_TEXT => item.timeSpan = 0
                    /\ mode = WORK_AREA_TEXT => item.timeSpan = 1
                    /\ mode = CUSTOM_TEXT =>
                          /\ item.timeSpanStart = Val(range[1])
                          /\ item.timeSpanDuration = Val(range[2]) - Val(range[1])
                    /\ mode = SINGLE_FRAME_TEXT =>
                          /\ item.timeSpanStart = Val(range[1])
                          /\ item.timeSpanDuration = comp.frameDuration

\* a single-frame row and a custom row were applied in one run
C2_Witness ==
    /\ op.name = "apply_to_render_queue_items"
    /\ \E r, s \in DOMAIN table :
          /\ Applied(log, r) /\ table[r].mode = SINGLE_FRAME_TEXT
          /\ ItemOf(rq, table, r).timeSpanDuration = 400
          /\ Applied(log, s) /\ table[s].mode = CUSTOM_TEXT
          /\ ItemOf(rq, table, s).timeSpanDuration > 0

\* the text of the row does not parse in the row's mode
Unparsable(row) ==
    \/ row.mode = CUSTOM_TEXT /\ MatchCustom(row.text) = None
    \/ row.mode = SINGLE_FRAME_TEXT /\ MatchSingle(row.text) = None

\* C3: a checked row the loop of apply_to_render_queue_items comes to, with
\* a text that does not parse, is skipped: its item stays as it is, the
\* row gets the error icon and 'Template Not Applied | Error - Bad Frame
\* Range' and is unchecked, and the loop goes on to the rows after it.
C3_BadFrameRangeSkipped ==
    [][ op'.name = "apply_to_render_queue_items" =>
            \A r \in DOMAIN table :
                (table[r].include /\ Unparsable(table[r]) /\ Reached(log', r)) =>
                    /\ ItemOf(rq', table', r) = ItemOf(rq, table, r)
                    /\ table'[r].icon = "errorIcon"
                    /\ table'[r].tip = "Template Not Applied | Error - Bad Frame Range"
                    /\ ~table'[r].include
                    /\ \A s \in DOMAIN table :
                          (s > r /\ table[s].include /\ Reached(log', s)) =>
                              \E i \in DOMAIN log' : log'[i].row = s
      ]_vars

\* a row with a bad frame range was skipped and the row after it applied
C3_Witness ==
    /\ op.name = "apply_to_render_queue_items"
    /\ \E r, s \in DOMAIN table :
          /\ r < s
          /\ Unparsable(table[r])
          /\ table[r].tip = "Template Not Applied | Error - Bad Frame Range"
          /\ ~table[r].include
          /\ Applied(log, s)

\* C4: apply_to_render_queue_items leaves a row that is not checked, and
\* the item of that row, as they were.
C4_UncheckedUntouched ==
    [][ op'.name = "apply_to_render_queue_items" =>
            \A r \in DOMAIN table :
                ~table[r].include =>
                    /\ r \in DOMAIN table'
                    /\ table'[r] = table[r]
                    /\ ItemIndex(rq, table[r].item) # 0 =>
                          /\ ItemIndex(rq', table[r].item) # 0
                          /\ ItemOf(rq', table', r) = ItemOf(rq, table, r)
      ]_vars

\* a run applied one row and passed over an unchecked row whose item still
\* needs an output
C4_Witness ==
    /\ op.name = "apply_to_render_queue_items"
    /\ \E r, s \in DOMAIN table :
          /\ ~table[r].include
          /\ table[r].tip = "Template Not Applied | Needs Output"
          /\ ItemOf(rq, table, r).status = NEEDS_OUTPUT
          /\ Applied(log, s)

\* C5: submit_to_deadline hands a row to the Deadline command only if the
\* row is checked, its item is QUEUED and its comp name is made of letters,
\* digits and underscores only.
C5_SubmitsOnlyCleanRows ==
    op.name = "apply_and_submit" =>
        \A i \in SubmitCmds(log) :
            LET r == log[i].row
                name == Comp(ItemOf(rq, table, r).comp).name
            IN  /\ table[r].include
                /\ ItemOf(rq, table, r).status = QUEUED
                /\ \A j \in DOMAIN name : IsWordChar(name[j])

\* one of the project checks of submit_to_deadline fails
ProjectCheckFails ==
    \/ project \in {"none", "unsaved"}
    \/ Len(rq) = 0
    \/ Len(table) = 0

\* C6, as stated: when a project check fails a warning is shown and the
\* run ends with no save, no backup, no job file written and no invocation
\* of the Deadline command.
C6_NoDeadlineCommandAtAll ==
    [][ (op'.name = "apply_and_submit" /\ ProjectCheckFails /\ NoRaise(log')) =>
            /\ EventsOf(log', "warning") # {}
            /\ \A i \in DOMAIN log' :
                  log'[i].k \notin {"save", "backup", "write", "cmd"}
            /\ jobFiles' = jobFiles
      ]_vars

\* C6, amended: when a project check fails a warning is shown and the run
\* ends with no save, no backup, no job file written and no invocation of
\* the Deadline command that submits a job; the pool and group queries of
\* the lazy load come before the checks.
C6_FailedCheckStopsRun ==
    [][ (op'.name = "apply_and_submit" /\ ProjectCheckFails /\ NoRaise(log')) =>
            /\ EventsOf(log', "warning") # {}
            /\ \A i \in DOMAIN log' :
                  log'[i].k \notin {"save", "backup", "write"}
            /\ SubmitCmds(log') = {}
            /\ jobFiles' = jobFiles
      ]_vars

\* a run in an unsaved project queried the pools and then warned
C6_Witness ==
    /\ op.name = "apply_and_submit"
    /\ project = "unsaved"
    /\ Len(log) = 3
    /\ log[1] = Ev("cmd", 0, "-Pools")
    /\ log[3] = Ev("warning", 0, "Project not saved")

\* the rows the run marked as submitted, and the rows it marked with an
\* error: apply_to_render_queue_items, which runs first, leaves no checked
\* row with one of these tooltips
SubmittedRows ==
    { r \in DOMAIN table :
        table[r].include /\ table[r].tip = "Submitted to Deadline" }
ErrorRows ==
    { r \in DOMAIN table :
        /\ table[r].include
        /\ table[r].tip \in
             {"Comp name has spaces at the front or back - Cannot submit to Deadline",
              "Comp name has special characters - Cannot submit to Deadline",
              "Failed to submit to Deadline"} }

\* C7: a run that passed the project checks ends with one message box: the
\* success message, with the number of rows marked 'Submitted to
\* Deadline', exactly when no row has an error; else the error message,
\* with one line for each row rejected for its name or whose submission
\* raised.
C7_CompletionMessage ==
    (op.name = "apply_and_submit" /\ EventsOf(log, "backup") # {} /\ NoRaise(log)) =>
        LET m == log[Len(log)]
        IN  /\ EventsOf(log, "message") = {Len(log)}
            /\ m.what = "Submission completed successfully" <=> ErrorRows = {}
            /\ m.what # "Submission completed successfully" =>
                  m.what = "Submission completed with errors"
            /\ ErrorRows = {} => m.n = Cardinality(SubmittedRows)
            /\ ErrorRows # {} =>
                  /\ Len(m.lines) = Cardinality(ErrorRows)
                  /\ \A r \in ErrorRows : \E j \in DOMAIN m.lines : m.lines[j].row = r

\* a run submitted one row and rejected another: the error message has one
\* line
C7_Witness ==
    /\ op.name = "apply_and_submit"
    /\ Cardinality(SubmittedRows) = 1
    /\ Cardinality(ErrorRows) = 1
    /\ log # <<>>
    /\ log[Len(log)].k = "message"
    /\ log[Len(log)].what = "Submission completed with errors"
    /\ Len(log[Len(log)].lines) = 1

\* C8: a row is marked 'Submitted to Deadline' only if the Deadline command
\* was executed for it, and a row whose command could not be executed is
\* marked as failed.
C8_SubmittedMeansExecuted ==
    (op.name = "apply_and_submit" /\ EventsOf(log, "message") # {}) =>
        /\ \A r \in SubmittedRows :
              \E i \in SubmitCmds(log) : log[i].row = r /\ log[i].ok
        /\ \A i \in SubmitCmds(log) :
              ~log[i].ok => table[log[i].row].tip = "Failed to submit to Deadline"

\* C9: the two job files of a row are written and closed, in full, before
\* the Deadline command is invoked for the row; the command is invoked once
\* for the row, with files that describe the row's item; the files of a
\* later row are written after the invocation has returned.
C9_JobFilesBeforeCommand ==
    op.name = "apply_and_submit" =>
        /\ \A i \in SubmitCmds(log) :
              LET r == log[i].row
                  file == [item |-> table[r].item,
                           comp |-> ItemOf(rq, table, r).comp,
                           complete |-> TRUE]
              IN  /\ i >= 3
                  /\ log[i - 2] = [k |-> "write", row |-> r,
                                   what |-> "ae_submit_info.job", ok |-> TRUE]
                  /\ log[i - 1] = [k |-> "write", row |-> r,
                                   what |-> "ae_plugin_info.job", ok |-> TRUE]
                  /\ log[i].si = file
                  /\ log[i].pi = file
                  /\ \A j \in SubmitCmds(log) : log[j].row = r => j = i
                  /\ \A j \in EventsOf(log, "write") :
                        log[j].row # r => (j > i <=> log[j].row > r)
        /\ \A j \in EventsOf(log, "write") :
              (log[j].what = "ae_plugin_info.job" /\ log[j].ok) =>
                  j + 1 \in SubmitCmds(log)

\* a run submitted two rows, one after the other
C9_Witness ==
    /\ op.name = "apply_and_submit"
    /\ \E i, j \in SubmitCmds(log) :
          /\ i < j
          /\ log[i].row = 1 /\ log[j].row = 2
          /\ log[i].si.comp # log[j].si.comp
          /\ jobFiles.submit_info = log[j].si

\* a run of submit_to_deadline that passed the project checks
PassedChecks ==
    /\ op.name = "apply_and_submit"
    /\ ~ProjectCheckFails
    /\ NoRaise(log)

\* C10, as stated: in a run that passes the project checks the project is
\* saved exactly when the answer was Yes, the save comes before the backup
\* copy is attempted, and the backup copy is attempted before the first
\* invocation of the Deadline command in the run.
C10_BackupBeforeAnyCommand ==
    PassedChecks =>
        /\ Cardinality(EventsOf(log, "backup")) = 1
        /\ EventsOf(log, "save") # {} <=> op.save_project = QMessageBox_Yes
        /\ \A i \in EventsOf(log, "save"), j \in EventsOf(log, "backup") : i < j
        /\ \A i \in EventsOf(log, "cmd"), j \in EventsOf(log, "backup") : j < i

\* C10, amended: in a run that passes the project checks the project is
\* saved exactly when the answer was Yes, the save comes before the backup
\* copy is attempted, and the backup copy is attempted before the first
\* invocation of the Deadline command that submits a job; the pool and
\* group queries of the lazy load come before the save.
C10_SaveBackupSubmit ==
    PassedChecks =>
        /\ Cardinality(EventsOf(log, "backup")) = 1
        /\ Cardinality(EventsOf(log, "save")) <= 1
        /\ EventsOf(log, "save") # {} <=> op.save_project = QMessageBox_Yes
        /\ \A i \in EventsOf(log, "save"), j \in EventsOf(log, "backup") : i < j
        /\ \A i \in SubmitCmds(log), j \in EventsOf(log, "backup") : j < i

\* a run queried the pools, saved, made the backup and submitted a row
C10_Witness ==
    /\ op.name = "apply_and_submit"
    /\ op.save_project = QMessageBox_Yes
    /\ \E a, b, c, d \in DOMAIN log :
          /\ a < b /\ b < c /\ c < d
          /\ log[a] = Ev("cmd", 0, "-Pools")
          /\ log[b] = Ev("save", 0, "project.save")
          /\ log[c].k = "backup"
          /\ d \in SubmitCmds(log)

\* C11: a row with the custom frame range 'a - b', a <= b, on a comp with a
\* display start time, applied and then submitted with the frame list
\* taken from the comp, gives the job the frame list 'a-b'.
C11_FrameRoundTrip ==
    (op.name = "apply_and_submit" /\ override_frame_list) =>
        \A i \in SubmitCmds(log) :
            LET row == table[log[i].row]
                comp == Comp(ItemOf(rq, table, log[i].row).comp)
                match == MatchCustom(row.text)
                a == ParseInt(Val(match)[1])
                b == ParseInt(Val(match)[2])
            IN  (/\ Applied(log, log[i].row)
                 /\ row.mode = CUSTOM_TEXT
                 /\ match # None
                 /\ a <= b
                 /\ comp.displayStartTime # 0) =>
                    log[i].frames = FormatInt(a) \o <<"-">> \o FormatInt(b)

\* C12: when create_render_queue_items, apply_to_render_queue_items or
\* apply_and_submit (apply_to_render_queue_items, then submit_to_deadline)
\* has returned, by whatever return path, the Apply, Add and Submit buttons
\* are enabled.
C12_ButtonsEnabledOnReturn ==
    (/\ op.name \in {"__init__", "create_render_queue_items",
                     "apply_to_render_queue_items", "apply_and_submit"}
     /\ NoRaise(log)) =>
        buttons

============================================================================
